---- MODULE Spec2Model ----
(***************************************************************************)
(* Study-plan workflow (plan-estudio): the LangGraph state machine built   *)
(* in src/graph.py, its eleven nodes and its three routing functions.      *)
(*                                                                         *)
(* Conventions of the model                                                *)
(*  - ratings and thresholds are in tenths (4.0 -> 40, 0.3 -> 3);           *)
(*  - a text is the set of phrases that occur in it; Lower maps a phrase   *)
(*    to its lower-case form, so "x in text.lower()" is ContainsCI;        *)
(*  - a dict is a function whose DOMAIN is its key set; the plan, an       *)
(*    insertion-ordered dict, is the sequence of its keys;                 *)
(*  - None is the string "None".                                           *)
(***************************************************************************)
EXTENDS Integers, Sequences, FiniteSets, TLC

----------------------------------------------------------------------------
(* Program constants                                                       *)

MAX_BOOK_SEARCHES_PER_STAGE == 3
MAX_VALIDATION_CYCLES == 5
MAX_PLAN_REFINEMENTS == 2
MIN_BOOKS_PER_STAGE == 2
QUALITY_THRESHOLD == 40
RECURSION_LIMIT == 100
RELAX_FLOOR == 35
RELAX_STEP == 3
LOW_RATING == 38
LOW_REVIEWS == 50
TOP_BOOKS == 5
DEFAULT_SCORE == 7
MIN_SCORE == 6

(* Bounds of the model                                                     *)

\* searches beyond the per-stage ceiling that the collaborator still answers
MaxLateAnswers == 1
\* most stages of a plan handed directly to a routing function
MaxPlanStages == 2
\* largest counter value handed directly to a routing function
MaxCounter == 5
\* lines of a loosely formatted answer
MaxLines == 2

----------------------------------------------------------------------------
(* Texts                                                                   *)

NoStage == "None"

LowerTable ==
  [t \in {"Gap", "Need", "Critical", "Major issue", "Low quality",
          "Foundational", "Advanced", "Intermediate T", "Advanced T",
          "Fundamentals of T", "Core T", "Basics", "Practice", "Mastery",
          "Projects", "Capstone", "Research", "Frontier"} |->
     CASE t = "Gap" -> "gap"
       [] t = "Need" -> "need"
       [] t = "Critical" -> "critical"
       [] t = "Major issue" -> "major issue"
       [] t = "Low quality" -> "low quality"
       [] t = "Foundational" -> "foundational"
       [] t = "Advanced" -> "advanced"
       [] t = "Intermediate T" -> "intermediate t"
       [] t = "Advanced T" -> "advanced t"
       [] t = "Fundamentals of T" -> "fundamentals of t"
       [] t = "Core T" -> "core t"
       [] t = "Basics" -> "basics"
       [] t = "Practice" -> "practice"
       [] t = "Mastery" -> "mastery"
       [] t = "Projects" -> "projects"
       [] t = "Capstone" -> "capstone"
       [] t = "Research" -> "research"
       [] t = "Frontier" -> "frontier"]

\* str.lower() of one phrase
Lower(t) == IF t \in DOMAIN LowerTable THEN LowerTable[t] ELSE t

\* w in text.lower(), for a lower-case phrase w
ContainsCI(text, w) == \E t \in text : Lower(t) = w

\* dict helpers
Get(d, k) == IF k \in DOMAIN d THEN d[k] ELSE << >>
Put(d, k, v) == [x \in (DOMAIN d) \cup {k} |-> IF x = k THEN v ELSE d[x]]
Del(d, k) == [x \in (DOMAIN d) \ {k} |-> d[x]]
EmptyDict == [x \in {} |-> << >>]

\* the elements of a sequence
Range(s) == {s[i] : i \in 1..Len(s)}

\* seq[-n:]
LastN(s, n) == IF Len(s) <= n THEN s ELSE SubSeq(s, Len(s) - n + 1, Len(s))

\* seq[:n]
FirstN(s, n) == IF Len(s) <= n THEN s ELSE SubSeq(s, 1, n)

----------------------------------------------------------------------------
(* Books and scoring                                                       *)

\* 1000 * ln(n), for the arguments the model's review counts produce
Ln1000(n) ==
  CASE n = 2 -> 693
    [] n = 21 -> 3045
    [] n = 301 -> 5707
    [] n = 1201 -> 7090
    [] OTHER -> 0

Max(a, b) == IF a >= b THEN a ELSE b

\* a score that takes the logarithm of num_reviews + 1 as it is
Score_no_floor(rating, num_reviews) == rating * Ln1000(num_reviews + 1)

\* score = rating * math.log(max(num_reviews, 1) + 1)
Score(rating, num_reviews) == rating * Ln1000(Max(num_reviews, 1) + 1)

\* a book as search_books_for_topic returns it (title "" : no title parsed)
RawBook(title, rating, num_reviews) ==
  [title |-> title, rating |-> rating, num_reviews |-> num_reviews]

BookA == RawBook("A", 45, 1200)
BookB == RawBook("B", 47, 300)
BookC == RawBook("C", 42, 20)
BookD == RawBook("D", 44, 20)
BookE == RawBook("E", 37, 1200)
BookF == RawBook("F", 30, 300)
BookG == RawBook("G", 40, 1200)
BookH == RawBook("H", 41, 300)
BookI == RawBook("I", 46, 20)
BookJ == RawBook("J", 43, 20)
BookU == RawBook("", 48, 1200)
\* a record of the second parsing pass that has no title key
BookN == [rating |-> 45, num_reviews |-> 1200]
\* a book without reviews
BookZ == RawBook("Z", 20, 0)

\* book_info of investigador_libros: the raw book with its score
BookInfo(book) ==
  [title |-> book.title, rating |-> book.rating,
   num_reviews |-> book.num_reviews,
   score |-> Score(book.rating, book.num_reviews)]

\* validate_book_quality(book, quality_threshold)
validate_book_quality(book, quality_threshold) ==
  book.rating >= quality_threshold

RECURSIVE InsertByScore(_, _)
\* b goes behind every book whose score is at least its own
InsertByScore(b, sorted) ==
  IF sorted = << >> THEN << b >>
  ELSE IF Head(sorted).score >= b.score
       THEN << Head(sorted) >> \o InsertByScore(b, Tail(sorted))
       ELSE << b >> \o sorted

RECURSIVE SortByScoreFrom(_, _)
SortByScoreFrom(books, sorted) ==
  IF books = << >> THEN sorted
  ELSE SortByScoreFrom(Tail(books), InsertByScore(Head(books), sorted))

\* a selection that keeps the candidates in the order they came
SortByScore_unsorted(books) == books

\* books.sort(key=score, reverse=True): stable, descending
SortByScore(books) == SortByScoreFrom(books, << >>)

----------------------------------------------------------------------------
(* The state aggregate                                                     *)

\* initialize_state(topic, user_level)
initialize_state(topic, user_level) ==
  [topic |-> topic,
   user_level |-> user_level,
   knowledge_gaps |-> << >>,
   study_plan_structure |-> << >>,
   books_by_stage |-> EmptyDict,
   book_candidates |-> EmptyDict,
   book_search_iterations |-> 0,
   validation_iterations |-> 0,
   plan_refinement_iterations |-> 0,
   quality_threshold |-> QUALITY_THRESHOLD,
   stage_being_processed |-> NoStage,
   all_stages_covered |-> FALSE,
   final_output |-> << >>,
   validation_feedback |-> << >>]

\* a feedback entry: its fixed label, the numbers formatted into it and the
\* phrases of its text
Feedback(label, n, q, words) ==
  [label |-> label, n |-> n, q |-> q, words |-> words]

----------------------------------------------------------------------------
(* Nodes 1-2: analysis                                                     *)

IsGapLine(line) ==
  ContainsCI(line, "gap") \/ ContainsCI(line, "lack")
    \/ ContainsCI(line, "missing")

\* analizador_tema; reply.ok = FALSE when llm.invoke raises, reply.lines
\* are the lines of the analysis text
analizador_tema(s, reply) ==
  IF reply.ok
  THEN LET found == IF \E i \in 1..Len(reply.lines) :
                          ContainsCI(reply.lines[i], "gap")
                    THEN SelectSeq(reply.lines, IsGapLine)
                    ELSE << >>
           gaps == IF found = << >>
                   THEN << {"Complete coverage of T"} >>
                   ELSE found
           head == IF reply.lines = << >> THEN {} ELSE reply.lines[1]
       IN [s EXCEPT !.knowledge_gaps = gaps,
                    !.validation_feedback =
                       << Feedback("Analisis inicial", 0, 0, head) >>]
  ELSE [s EXCEPT !.knowledge_gaps =
                    << {"Foundational", "Foundational T"},
                       {"Intermediate T"},
                       {"Advanced", "Advanced T"} >>]

IsNotFoundational(g) == ~ContainsCI(g, "foundational")

IsAdvancedGap(g) ==
  ContainsCI(g, "advanced") \/ ContainsCI(g, "complex")
    \/ ContainsCI(g, "expert")

\* evaluador_nivel
evaluador_nivel(s) ==
  LET level == IF s.user_level \in {"beginner", "intermediate", "advanced"}
               THEN s.user_level ELSE "beginner"
      gaps == CASE level = "beginner" -> s.knowledge_gaps
                [] level = "intermediate" ->
                     SelectSeq(s.knowledge_gaps, IsNotFoundational)
                [] OTHER -> SelectSeq(s.knowledge_gaps, IsAdvancedGap)
  IN [s EXCEPT !.user_level = level, !.knowledge_gaps = gaps]

----------------------------------------------------------------------------
(* Nodes 3-5: planning                                                     *)

LLMStageNames ==
  << "Basics", "Practice", "Mastery", "Projects", "Capstone", "Research",
     "Frontier" >>

\* default stages that do not depend on the level
create_default_stages_uniform(level) == << "Core T", "Advanced T" >>

\* create_default_stages(topic, level)
create_default_stages(level) ==
  IF level = "beginner"
  THEN << "Fundamentals of T", "Intermediate T", "Advanced T" >>
  ELSE << "Core T", "Advanced T" >>

\* parse_stages_from_text, for a text with `headers` stage headers
parse_stages_from_text(headers, level) ==
  IF headers = 0 THEN create_default_stages(level)
  ELSE SubSeq(LLMStageNames, 1, headers)

\* a structuring node without a plan to fall back on
estructurador_plan_no_fallback(s, reply) ==
  IF reply.ok
  THEN [s EXCEPT
          !.study_plan_structure =
             parse_stages_from_text(reply.headers, s.user_level),
          !.plan_refinement_iterations = s.plan_refinement_iterations + 1]
  ELSE [s EXCEPT !.plan_refinement_iterations = 1]

\* a structuring node that leaves the refinement counter alone
estructurador_plan_uncounted(s, reply) ==
  IF reply.ok
  THEN [s EXCEPT
          !.study_plan_structure =
             parse_stages_from_text(reply.headers, s.user_level)]
  ELSE [s EXCEPT
          !.study_plan_structure = create_default_stages(s.user_level)]

\* estructurador_plan
estructurador_plan(s, reply) ==
  IF reply.ok
  THEN [s EXCEPT
          !.study_plan_structure =
             parse_stages_from_text(reply.headers, s.user_level),
          !.plan_refinement_iterations = s.plan_refinement_iterations + 1]
  ELSE [s EXCEPT
          !.study_plan_structure = create_default_stages(s.user_level),
          !.plan_refinement_iterations = 1]

\* a scan that keeps the last stage with fewer than 2 books
FirstUncovered_last(stages, books_by_stage) ==
  LET open == {i \in 1..Len(stages) :
                 Len(Get(books_by_stage, stages[i])) < 2}
  IN IF open = {} THEN NoStage
     ELSE stages[CHOOSE i \in open : \A j \in open : i >= j]

\* the first stage of the plan with fewer than 2 books, or None
FirstUncovered(stages, books_by_stage) ==
  LET open == {i \in 1..Len(stages) :
                 Len(Get(books_by_stage, stages[i])) < 2}
  IN IF open = {} THEN NoStage
     ELSE stages[CHOOSE i \in open : \A j \in open : i <= j]

\* a selector that clears the counter on every selection
selector_etapa_always_reset(s) ==
  LET next_stage == FirstUncovered(s.study_plan_structure, s.books_by_stage)
  IN IF next_stage # NoStage
     THEN [s EXCEPT !.book_search_iterations = 0,
                    !.stage_being_processed = next_stage]
     ELSE [s EXCEPT !.stage_being_processed = NoStage,
                    !.all_stages_covered = TRUE]

\* selector_etapa
selector_etapa(s) ==
  LET previous_stage == s.stage_being_processed
      next_stage == FirstUncovered(s.study_plan_structure, s.books_by_stage)
  IN IF next_stage # NoStage
     THEN [s EXCEPT
             !.book_search_iterations =
                IF next_stage # previous_stage THEN 0 ELSE @,
             !.stage_being_processed = next_stage]
     ELSE [s EXCEPT !.stage_being_processed = NoStage,
                    !.all_stages_covered = TRUE]

\* a loop that deletes the books of every stage of the plan
ClearBelowMinimum_every_stage(stages, books_by_stage) ==
  [k \in {x \in DOMAIN books_by_stage : x \notin Range(stages)}
     |-> books_by_stage[k]]

RECURSIVE ClearBelowMinimum(_, _)
\* the loop of replanificador that deletes the books of weak stages
ClearBelowMinimum(stages, books_by_stage) ==
  IF stages = << >> THEN books_by_stage
  ELSE LET stage == Head(stages)
           rest == IF Len(Get(books_by_stage, stage)) < 2
                      /\ stage \in DOMAIN books_by_stage
                   THEN Del(books_by_stage, stage)
                   ELSE books_by_stage
       IN ClearBelowMinimum(Tail(stages), rest)

\* a replanning node that also clears the book-search counter
replanificador_restart(s, reply) ==
  IF reply.ok
  THEN LET n == s.plan_refinement_iterations + 1
       IN [s EXCEPT
             !.plan_refinement_iterations = n,
             !.book_search_iterations = 0,
             !.validation_feedback =
                Append(@, Feedback("Replanificacion", n, 0, reply.words)),
             !.all_stages_covered = FALSE,
             !.books_by_stage =
                ClearBelowMinimum(s.study_plan_structure, @)]
  ELSE [s EXCEPT
          !.plan_refinement_iterations = s.plan_refinement_iterations + 1]

\* replanificador; reply.words are the phrases of recommendations[:100]
replanificador(s, reply) ==
  IF reply.ok
  THEN LET n == s.plan_refinement_iterations + 1
       IN [s EXCEPT
             !.plan_refinement_iterations = n,
             !.validation_feedback =
                Append(@, Feedback("Replanificacion", n, 0, reply.words)),
             !.all_stages_covered = FALSE,
             !.books_by_stage =
                ClearBelowMinimum(s.study_plan_structure, @)]
  ELSE [s EXCEPT
          !.plan_refinement_iterations = s.plan_refinement_iterations + 1]

----------------------------------------------------------------------------
(* Nodes 6-8: book search                                                  *)

\* a check of the key alone
HasTitle_key_only(book) == "title" \in DOMAIN book

\* 'title' in book and book['title']
HasTitle(book) == "title" \in DOMAIN book /\ book.title # ""

RECURSIVE BookInfos(_)
\* the loop of investigador_libros over books_found
BookInfos(books_found) ==
  IF books_found = << >> THEN << >>
  ELSE IF HasTitle(Head(books_found))
       THEN << BookInfo(Head(books_found)) >> \o BookInfos(Tail(books_found))
       ELSE BookInfos(Tail(books_found))

\* a research node that does not count a failed search
investigador_libros_uncounted_failure(s, reply) ==
  LET stage == s.stage_being_processed
  IN IF stage = NoStage THEN s
     ELSE IF reply.ok
          THEN [s EXCEPT
                  !.book_candidates = Put(@, stage, BookInfos(reply.books)),
                  !.book_search_iterations = @ + 1]
          ELSE [s EXCEPT !.book_candidates = Put(@, stage, << >>)]

\* investigador_libros; reply.ok = FALSE when the search raises,
\* reply.books is what search_books_for_topic returns
investigador_libros(s, reply) ==
  LET stage == s.stage_being_processed
      iterations == s.book_search_iterations
  IN IF stage = NoStage THEN s
     ELSE IF reply.ok
          THEN [s EXCEPT
                  !.book_candidates = Put(@, stage, BookInfos(reply.books)),
                  !.book_search_iterations = iterations + 1]
          ELSE [s EXCEPT
                  !.book_candidates = Put(@, stage, << >>),
                  !.book_search_iterations = iterations + 1]

\* [book for book in candidates if validate_book_quality(book, threshold)]
QualityFilter(candidates, threshold) ==
  SelectSeq(candidates, LAMBDA book : validate_book_quality(book, threshold))

\* a selection that relaxes the threshold until 2 books pass or the floor
\* of 3.5 is reached
RECURSIVE SelectBooks_iterated(_, _)
SelectBooks_iterated(candidates, threshold) ==
  LET quality_books == QualityFilter(candidates, threshold)
  IN IF Len(quality_books) < MIN_BOOKS_PER_STAGE /\ threshold > RELAX_FLOOR
     THEN SelectBooks_iterated(candidates, threshold - RELAX_STEP)
     ELSE FirstN(SortByScore(quality_books), TOP_BOOKS)

\* the books validador_calidad selects among the candidates
SelectBooks(candidates, threshold) ==
  LET quality_books == QualityFilter(candidates, threshold)
      relaxed == IF Len(quality_books) < MIN_BOOKS_PER_STAGE
                    /\ threshold > RELAX_FLOOR
                 THEN QualityFilter(candidates, threshold - RELAX_STEP)
                 ELSE quality_books
  IN FirstN(SortByScore(relaxed), TOP_BOOKS)

\* a quality node that stores its selection even when no stage is selected
validador_calidad_unguarded(s) ==
  LET stage == s.stage_being_processed
  IN [s EXCEPT
        !.books_by_stage =
           Put(@, stage, SelectBooks(Get(s.book_candidates, stage),
                                     s.quality_threshold))]

\* a quality node that merges its selection into the books of the stage
validador_calidad_merging(s) ==
  LET stage == s.stage_being_processed
  IN IF stage = NoStage THEN s
     ELSE [s EXCEPT
             !.books_by_stage =
                Put(@, stage,
                    FirstN(SortByScore(
                             Get(@, stage)
                               \o SelectBooks(Get(s.book_candidates, stage),
                                              s.quality_threshold)),
                           TOP_BOOKS))]

\* validador_calidad
validador_calidad(s) ==
  LET stage == s.stage_being_processed
  IN IF stage = NoStage THEN s
     ELSE [s EXCEPT
             !.books_by_stage =
                Put(@, stage, SelectBooks(Get(s.book_candidates, stage),
                                          s.quality_threshold))]

\* the gap strings of detector_gaps; each names the stage
GapFewBooks(stage) == {stage, "necesita mas libros"}
GapLowRating(stage) == {stage, "calificaciones bajas"}
GapFewReviews(stage) == {stage, "carecen de resenas"}

\* gaps found already when half of the books have few reviews
NewGaps_half(stage, books) ==
  LET low_rated == SelectSeq(books, LAMBDA b : b.rating < LOW_RATING)
      low_reviews == SelectSeq(books, LAMBDA b : b.num_reviews < LOW_REVIEWS)
  IN (IF Len(books) < MIN_BOOKS_PER_STAGE
      THEN << GapFewBooks(stage) >> ELSE << >>)
     \o (IF low_rated # << >> THEN << GapLowRating(stage) >> ELSE << >>)
     \o (IF Len(low_reviews) >= Len(books) \div 2
         THEN << GapFewReviews(stage) >> ELSE << >>)

\* new_gaps of detector_gaps
NewGaps(stage, books) ==
  LET low_rated == SelectSeq(books, LAMBDA b : b.rating < LOW_RATING)
      low_reviews == SelectSeq(books, LAMBDA b : b.num_reviews < LOW_REVIEWS)
  IN (IF Len(books) < MIN_BOOKS_PER_STAGE
      THEN << GapFewBooks(stage) >> ELSE << >>)
     \o (IF low_rated # << >> THEN << GapLowRating(stage) >> ELSE << >>)
     \o (IF Len(low_reviews) > Len(books) \div 2
         THEN << GapFewReviews(stage) >> ELSE << >>)

\* a detector that keeps only the gaps it has just found
detector_gaps_replacing(s) ==
  LET stage == s.stage_being_processed
  IN IF stage = NoStage THEN s
     ELSE [s EXCEPT
             !.knowledge_gaps = NewGaps(stage, Get(s.books_by_stage, stage))]

\* a detector that lowers the stored threshold for the next search
detector_gaps_relaxing(s) ==
  LET stage == s.stage_being_processed
  IN IF stage = NoStage THEN s
     ELSE [s EXCEPT
             !.knowledge_gaps =
                @ \o NewGaps(stage, Get(s.books_by_stage, stage)),
             !.quality_threshold =
                IF Len(Get(s.books_by_stage, stage)) < MIN_BOOKS_PER_STAGE
                THEN Max(@ - RELAX_STEP, RELAX_FLOOR) ELSE @]

\* detector_gaps
detector_gaps(s) ==
  LET stage == s.stage_being_processed
  IN IF stage = NoStage THEN s
     ELSE [s EXCEPT
             !.knowledge_gaps =
                @ \o NewGaps(stage, Get(s.books_by_stage, stage))]

----------------------------------------------------------------------------
(* Routing functions                                                       *)

\* stage.lower() in g.lower() or "need" in g.lower()
StageRelated(g, stage) ==
  ContainsCI(g, Lower(stage)) \/ ContainsCI(g, "need")

\* a decision that looks at the number of books before the counter
decision_busqueda_libros_count_first(s) ==
  LET stage == s.stage_being_processed
      iterations == s.book_search_iterations
      books == Get(s.books_by_stage, stage)
  IN IF stage = NoStage THEN "libros_suficientes"
     ELSE IF Len(books) < MIN_BOOKS_PER_STAGE
          THEN "reintentar_busqueda"
     ELSE IF iterations >= MAX_BOOK_SEARCHES_PER_STAGE
          THEN "aceptar_libros_actuales"
     ELSE IF (\E i \in 1..Len(s.knowledge_gaps) :
                StageRelated(s.knowledge_gaps[i], stage))
             /\ iterations < MAX_BOOK_SEARCHES_PER_STAGE - 1
          THEN "busqueda_especifica"
     ELSE "libros_suficientes"

\* decision_busqueda_libros
decision_busqueda_libros(s) ==
  LET stage == s.stage_being_processed
      iterations == s.book_search_iterations
      books == Get(s.books_by_stage, stage)
      gaps == s.knowledge_gaps
      stage_related_gaps ==
        SelectSeq(gaps, LAMBDA g : StageRelated(g, stage))
  IN IF stage = NoStage THEN "libros_suficientes"
     ELSE IF iterations >= MAX_BOOK_SEARCHES_PER_STAGE
          THEN "aceptar_libros_actuales"
     ELSE IF Len(books) < MIN_BOOKS_PER_STAGE
          THEN "reintentar_busqueda"
     ELSE IF stage_related_gaps # << >>
             /\ iterations < MAX_BOOK_SEARCHES_PER_STAGE - 1
          THEN "busqueda_especifica"
     ELSE "libros_suficientes"

\* a coverage test that skips the stages without an entry
UncoveredStages_present_only(stages, books_by_stage) ==
  SelectSeq(stages,
            LAMBDA stage_name :
              /\ stage_name \in DOMAIN books_by_stage
              /\ Len(books_by_stage[stage_name]) < MIN_BOOKS_PER_STAGE)

\* uncovered_stages of decision_cobertura_etapas
UncoveredStages(stages, books_by_stage) ==
  SelectSeq(stages,
            LAMBDA stage_name :
              Len(Get(books_by_stage, stage_name)) < MIN_BOOKS_PER_STAGE)

\* decision_cobertura_etapas: the value it returns
decision_cobertura_etapas(s) ==
  IF UncoveredStages(s.study_plan_structure, s.books_by_stage) # << >>
  THEN "siguiente_etapa"
  ELSE "validacion_global"

\* decision_cobertura_etapas: the state it leaves
decision_cobertura_state(s) ==
  [s EXCEPT !.all_stages_covered =
              (decision_cobertura_etapas(s) = "validacion_global")]

IsCritical(fb) ==
  ContainsCI(fb.words, "critical") \/ ContainsCI(fb.words, "major issue")
    \/ ContainsCI(fb.words, "low quality")

\* a decision that reads the whole feedback log, not its last 3 entries
decision_validacion_all_feedback(s) ==
  LET critical_issues ==
        \E i \in 1..Len(s.validation_feedback) :
           IsCritical(s.validation_feedback[i])
      insufficient_stages ==
        UncoveredStages(s.study_plan_structure, s.books_by_stage)
  IN IF s.validation_iterations >= MAX_VALIDATION_CYCLES
     THEN "forzar_salida"
     ELSE IF critical_issues
             /\ s.plan_refinement_iterations < MAX_PLAN_REFINEMENTS
          THEN "replantear"
     ELSE IF insufficient_stages # << >>
             /\ s.plan_refinement_iterations < MAX_PLAN_REFINEMENTS
          THEN "replantear"
     ELSE "formatear"

\* a decision that replans on critical feedback without a refinement cap
decision_validacion_uncapped(s) ==
  LET recent_feedback == LastN(s.validation_feedback, 3)
      critical_issues ==
        \E i \in 1..Len(recent_feedback) : IsCritical(recent_feedback[i])
      insufficient_stages ==
        UncoveredStages(s.study_plan_structure, s.books_by_stage)
  IN IF s.validation_iterations >= MAX_VALIDATION_CYCLES
     THEN "forzar_salida"
     ELSE IF critical_issues THEN "replantear"
     ELSE IF insufficient_stages # << >>
             /\ s.plan_refinement_iterations < MAX_PLAN_REFINEMENTS
          THEN "replantear"
     ELSE "formatear"

\* a decision that looks at the coverage of the stages only
decision_validacion_coverage_only(s) ==
  LET insufficient_stages ==
        UncoveredStages(s.study_plan_structure, s.books_by_stage)
  IN IF s.validation_iterations >= MAX_VALIDATION_CYCLES
     THEN "forzar_salida"
     ELSE IF insufficient_stages # << >>
             /\ s.plan_refinement_iterations < MAX_PLAN_REFINEMENTS
          THEN "replantear"
     ELSE "formatear"

\* decision_validacion
decision_validacion(s) ==
  LET validation_iterations == s.validation_iterations
      refinement_iterations == s.plan_refinement_iterations
      recent_feedback == LastN(s.validation_feedback, 3)
      critical_issues ==
        \E i \in 1..Len(recent_feedback) : IsCritical(recent_feedback[i])
      insufficient_stages ==
        UncoveredStages(s.study_plan_structure, s.books_by_stage)
  IN IF validation_iterations >= MAX_VALIDATION_CYCLES
     THEN "forzar_salida"
     ELSE IF critical_issues /\ refinement_iterations < MAX_PLAN_REFINEMENTS
          THEN "replantear"
     ELSE IF insufficient_stages # << >>
             /\ refinement_iterations < MAX_PLAN_REFINEMENTS
          THEN "replantear"
     ELSE "formatear"

----------------------------------------------------------------------------
(* Nodes 9-11: validation and output                                       *)

\* a validation node that looks at the score only
validador_global_score_only(s, reply) ==
  LET n == s.validation_iterations + 1
      quality_score == IF reply.score >= 0 THEN reply.score ELSE DEFAULT_SCORE
  IN IF reply.ok
     THEN [s EXCEPT
             !.validation_iterations = n,
             !.validation_feedback =
                Append(@, Feedback("Validation", n, quality_score, {}))
                  \o (IF quality_score < MIN_SCORE
                      THEN << Feedback("Low quality score", 0, quality_score,
                                       {"Low quality"}) >>
                      ELSE << >>)]
     ELSE [s EXCEPT
             !.validation_iterations = n,
             !.validation_feedback =
                Append(@, Feedback("Validation", n, 0,
                                   {"Completed with warnings"}))]

\* validador_global; reply.ok = FALSE when llm.invoke raises, reply.score
\* is the number the score pattern finds (-1: none), reply.words the
\* phrases of the validation text
validador_global(s, reply) ==
  LET n == s.validation_iterations + 1
  IN IF reply.ok
     THEN LET quality_score ==
                IF reply.score >= 0 THEN reply.score ELSE DEFAULT_SCORE
              critical_issues ==
                (IF ContainsCI(reply.words, "critical")
                      \/ ContainsCI(reply.words, "major issue")
                 THEN << Feedback("Critical issues detected", 0, 0,
                                  {"Critical"}) >>
                 ELSE << >>)
                \o (IF quality_score < MIN_SCORE
                    THEN << Feedback("Low quality score", 0, quality_score,
                                     {"Low quality"}) >>
                    ELSE << >>)
          IN [s EXCEPT
                !.validation_iterations = n,
                !.validation_feedback =
                   Append(@, Feedback("Validation", n, quality_score, {}))
                     \o critical_issues]
     ELSE [s EXCEPT
             !.validation_iterations = n,
             !.validation_feedback =
                Append(@, Feedback("Validation", n, 0,
                                   {"Completed with warnings"}))]

PlanDocument == << "PLAN DE ESTUDIO" >>
Disclaimer == << "ADVERTENCIA" >>

\* formateador_salida
formateador_salida(s) == [s EXCEPT !.final_output = PlanDocument]

\* a forced output that leaves the disclaimer out
salida_forzada_plain(s) == formateador_salida(s)

\* salida_forzada
salida_forzada(s) ==
  LET formatted == formateador_salida(s)
  IN [formatted EXCEPT !.final_output = Disclaimer \o formatted.final_output]

----------------------------------------------------------------------------
(* The collaborator: what its calls may return                             *)

AnalysisReplies ==
  { [ok |-> FALSE, lines |-> << >>],
    [ok |-> TRUE, lines |-> << {"overview"} >>],
    [ok |-> TRUE,
     lines |-> << {"Critical", "Gap", "Need", "Foundational"},
                  {"lack", "Advanced"} >>] }

\* a failure, a text without stage headers, and texts with 1 or 3 headers
PlanReplies ==
  { [ok |-> FALSE, headers |-> 0] }
    \cup { [ok |-> TRUE, headers |-> n] : n \in {0, 1, 3} }

\* lists search_books_for_topic may return: one acceptable book among
\* records without a title and books rated too low, or five good books
BookLists ==
  { << BookA, BookU, BookN, BookZ, BookF >>,
    << BookG, BookB, BookA, BookH, BookC >> }

\* five good books most of which have few reviews
FewReviewsList == << BookC, BookD, BookH, BookI, BookJ >>

\* The searches of a session.  To keep the sessions countable the list with
\* few reviews is returned only by a collaborator all of whose calls so far
\* were well formed; failures and the other lists may come at any time.
SearchReplies(so_far) ==
  { [ok |-> FALSE, books |-> << >>] }
    \cup { [ok |-> TRUE, books |-> b] : b \in BookLists }
    \cup (IF so_far = "well_formed"
          THEN { [ok |-> TRUE, books |-> FewReviewsList] } ELSE {})

ValidationReplies ==
  { [ok |-> FALSE, score |-> -1, words |-> {}],
    [ok |-> TRUE, score |-> -1, words |-> {}],
    [ok |-> TRUE, score |-> 5, words |-> {"Major issue"}] }

ReplanReplies ==
  { [ok |-> FALSE, words |-> {}],
    [ok |-> TRUE, words |-> {"Critical"}] }

Levels == {"beginner", "advanced", "guru"}

\* the topic of a session: a topic, written T in every text that quotes it,
\* or the empty string
Topics == {"T", ""}

\* run_study_plan_workflow(topic, user_level): the calls of the sessions;
\* the empty topic is tried with one level
SessionInputs ==
  { [topic |-> "T", user_level |-> level] : level \in Levels }
    \cup { [topic |-> topic, user_level |-> "advanced"] : topic \in Topics }

----------------------------------------------------------------------------
(* The graph                                                               *)

VARIABLES
  node,      \* the node the executor runs next, "END", or the error raised
  steps,     \* node executions so far
  state,     \* the GraphState threaded through the nodes
  decision,  \* the value the last routing function returned
  executed,  \* the node executed last
  collab,    \* what the collaborator's calls have been like so far
  late       \* answered searches beyond the per-stage ceiling so far

vars == << node, steps, state, decision, executed, collab, late >>

\* workflow.add_node
GraphNodes ==
  {"analizador_tema", "evaluador_nivel", "estructurador_plan",
   "selector_etapa", "investigador_libros", "validador_calidad",
   "detector_gaps", "decision_cobertura", "validador_global",
   "replanificador", "formateador_salida", "salida_forzada"}

\* edges that send the replanning back to the structuring node
Edge_restructuring ==
  [n \in {"START", "analizador_tema", "evaluador_nivel", "estructurador_plan",
          "selector_etapa", "investigador_libros", "validador_calidad",
          "replanificador", "formateador_salida", "salida_forzada"} |->
     CASE n = "START" -> "analizador_tema"
       [] n = "analizador_tema" -> "evaluador_nivel"
       [] n = "evaluador_nivel" -> "estructurador_plan"
       [] n = "estructurador_plan" -> "selector_etapa"
       [] n = "selector_etapa" -> "investigador_libros"
       [] n = "investigador_libros" -> "validador_calidad"
       [] n = "validador_calidad" -> "detector_gaps"
       [] n = "replanificador" -> "estructurador_plan"
       [] n = "formateador_salida" -> "END"
       [] n = "salida_forzada" -> "END"]

\* workflow.set_entry_point / add_edge
Edge ==
  [n \in {"START", "analizador_tema", "evaluador_nivel", "estructurador_plan",
          "selector_etapa", "investigador_libros", "validador_calidad",
          "replanificador", "formateador_salida", "salida_forzada"} |->
     CASE n = "START" -> "analizador_tema"
       [] n = "analizador_tema" -> "evaluador_nivel"
       [] n = "evaluador_nivel" -> "estructurador_plan"
       [] n = "estructurador_plan" -> "selector_etapa"
       [] n = "selector_etapa" -> "investigador_libros"
       [] n = "investigador_libros" -> "validador_calidad"
       [] n = "validador_calidad" -> "detector_gaps"
       [] n = "replanificador" -> "selector_etapa"
       [] n = "formateador_salida" -> "END"
       [] n = "salida_forzada" -> "END"]

\* a mapping that sends the accepted books back to the research node
BookSearchEdge_accept_retries ==
  [d \in {"reintentar_busqueda", "busqueda_especifica",
          "aceptar_libros_actuales", "libros_suficientes"} |->
     IF d = "libros_suficientes"
     THEN "decision_cobertura" ELSE "investigador_libros"]

\* add_conditional_edges("detector_gaps", decision_busqueda_libros, ...)
BookSearchEdge ==
  [d \in {"reintentar_busqueda", "busqueda_especifica",
          "aceptar_libros_actuales", "libros_suficientes"} |->
     IF d \in {"reintentar_busqueda", "busqueda_especifica"}
     THEN "investigador_libros" ELSE "decision_cobertura"]

\* a mapping that goes to validation whatever the coverage decision says
CoverageEdge_always_validates ==
  [d \in {"siguiente_etapa", "validacion_global"} |-> "validador_global"]

\* add_conditional_edges("decision_cobertura", decision_cobertura_etapas, ...)
CoverageEdge ==
  [d \in {"siguiente_etapa", "validacion_global"} |->
     IF d = "siguiente_etapa" THEN "selector_etapa" ELSE "validador_global"]

\* add_conditional_edges("validador_global", decision_validacion, ...)
ValidationEdge ==
  [d \in {"forzar_salida", "replantear", "formatear"} |->
     CASE d = "forzar_salida" -> "salida_forzada"
       [] d = "replantear" -> "replanificador"
       [] d = "formatear" -> "formateador_salida"]

\* the record of the collaborator's behaviour after one more call
Track(failed, well_formed) ==
  LET this == IF failed THEN "failing"
              ELSE IF well_formed THEN "well_formed" ELSE "mixed"
  IN IF collab \in {"none", this} THEN this ELSE "mixed"

\* a search reply of 5 titled books rated at least 4.0
WellFormedSearch(reply) ==
  /\ reply.ok
  /\ Len(reply.books) = 5
  /\ \A i \in 1..Len(reply.books) :
       HasTitle(reply.books[i]) /\ reply.books[i].rating >= 40

\* a ceiling that lets one node too many run
MayRunOneMore(n) == node = n /\ steps <= RECURSION_LIMIT

\* app.invoke(..., recursion_limit=100): one more node may run
MayRun(n) == node = n /\ steps < RECURSION_LIMIT

\* one node execution: the state it returns and the edge taken
Ran(n, s, next, dec, col, lt) ==
  /\ late' = lt
  /\ state' = s
  /\ node' = next
  /\ steps' = steps + 1
  /\ decision' = dec
  /\ executed' = n
  /\ collab' = col

\* a search for a stage that was already searched 3 times or more
LateSearch ==
  /\ state.stage_being_processed # NoStage
  /\ state.book_search_iterations >= MAX_BOOK_SEARCHES_PER_STAGE

Init ==
  /\ node = Edge["START"]
  /\ steps = 0
  /\ \E call \in SessionInputs :
       state = initialize_state(call.topic, call.user_level)
  /\ decision = "none"
  /\ executed = "START"
  /\ collab = "none"
  /\ late = 0

Run_analizador_tema ==
  /\ MayRun("analizador_tema")
  /\ \E reply \in AnalysisReplies :
       Ran("analizador_tema", analizador_tema(state, reply),
           Edge["analizador_tema"], decision, Track(~reply.ok, TRUE), late)

Run_evaluador_nivel ==
  /\ MayRun("evaluador_nivel")
  /\ Ran("evaluador_nivel", evaluador_nivel(state), Edge["evaluador_nivel"],
         decision, collab, late)

Run_estructurador_plan ==
  /\ MayRun("estructurador_plan")
  /\ \E reply \in PlanReplies :
       Ran("estructurador_plan", estructurador_plan(state, reply),
           Edge["estructurador_plan"], decision,
           Track(~reply.ok, reply.headers = 3), late)

Run_selector_etapa ==
  /\ MayRun("selector_etapa")
  /\ Ran("selector_etapa", selector_etapa(state), Edge["selector_etapa"],
         decision, collab, late)

Run_investigador_libros ==
  /\ MayRun("investigador_libros")
  /\ \E reply \in SearchReplies(collab) :
       /\ (LateSearch /\ reply.ok) => late < MaxLateAnswers
       /\ Ran("investigador_libros", investigador_libros(state, reply),
              Edge["investigador_libros"], decision,
              IF state.stage_being_processed = NoStage THEN collab
              ELSE Track(~reply.ok, WellFormedSearch(reply)),
              IF LateSearch /\ reply.ok THEN late + 1 ELSE late)

Run_validador_calidad ==
  /\ MayRun("validador_calidad")
  /\ Ran("validador_calidad", validador_calidad(state),
         Edge["validador_calidad"], decision, collab, late)

Run_detector_gaps ==
  /\ MayRun("detector_gaps")
  /\ LET s == detector_gaps(state)
         d == decision_busqueda_libros(s)
     IN Ran("detector_gaps", s, BookSearchEdge[d], d, collab, late)

\* the pass-through node and the routing function on its way out
Run_decision_cobertura ==
  /\ MayRun("decision_cobertura")
  /\ LET d == decision_cobertura_etapas(state)
     IN Ran("decision_cobertura", decision_cobertura_state(state),
            CoverageEdge[d], d, collab, late)

Run_validador_global ==
  /\ MayRun("validador_global")
  /\ \E reply \in ValidationReplies :
       LET s == validador_global(state, reply)
           d == decision_validacion(s)
       IN Ran("validador_global", s, ValidationEdge[d], d,
              Track(~reply.ok, TRUE), late)

Run_replanificador ==
  /\ MayRun("replanificador")
  /\ \E reply \in ReplanReplies :
       Ran("replanificador", replanificador(state, reply),
           Edge["replanificador"], decision, Track(~reply.ok, TRUE), late)

\* the two output nodes, each with its edge to END
Run_output ==
  /\ node \in {"formateador_salida", "salida_forzada"}
  /\ MayRun(node)
  /\ Ran(node,
         IF node = "salida_forzada" THEN salida_forzada(state)
         ELSE formateador_salida(state),
         Edge[node], decision, collab, late)

\* the step ceiling: GraphRecursionError, raised to the caller
RaiseRecursionError ==
  /\ node \notin {"END", "GraphRecursionError"}
  /\ steps >= RECURSION_LIMIT
  /\ node' = "GraphRecursionError"
  /\ UNCHANGED << steps, state, decision, executed, collab, late >>

Next ==
  \/ Run_analizador_tema
  \/ Run_evaluador_nivel
  \/ Run_estructurador_plan
  \/ Run_selector_etapa
  \/ Run_investigador_libros
  \/ Run_validador_calidad
  \/ Run_detector_gaps
  \/ Run_decision_cobertura
  \/ Run_validador_global
  \/ Run_replanificador
  \/ Run_output
  \/ RaiseRecursionError

Spec == Init /\ [][Next]_vars


----------------------------------------------------------------------------
(* The routing functions called directly, as a unit test calls them, on    *)
(* states drawn from bounded sets                                          *)

DirectPlans == { SubSeq(LLMStageNames, 1, n) : n \in 0..MaxPlanStages }

\* lists of 0, 1, 2 and 3 finalized books
DirectBookLists ==
  { << >>,
    << BookInfo(BookA) >>,
    << BookInfo(BookA), BookInfo(BookB) >>,
    << BookInfo(BookA), BookInfo(BookB), BookInfo(BookH) >> }

\* every books_by_stage whose keys are stages of the plan
DirectBooksByStage(plan) ==
  UNION { [keys -> DirectBookLists] : keys \in SUBSET Range(plan) }

DirectGapLists ==
  { << >>,
    << {"Complete coverage of T"} >>,
    << {"overview"}, {"Need", "Gap"} >>,
    << {"Basics", "necesita mas libros"} >>,
    << {"practice", "calificaciones bajas"} >> }

PlainEntry == Feedback("Validation", 1, 7, {})
CriticalEntry == Feedback("Critical issues detected", 0, 0, {"Critical"})
LowQualityEntry == Feedback("Low quality score", 0, 4, {"Low quality"})
MajorIssueEntry == Feedback("Replanificacion", 2, 0, {"major issue"})

DirectFeedbackLogs ==
  UNION { [1..n -> {PlainEntry, CriticalEntry}] : n \in 0..4 }
    \cup { << LowQualityEntry >>, << MajorIssueEntry >>,
           << MajorIssueEntry, PlainEntry, PlainEntry, PlainEntry >>,
           << PlainEntry, PlainEntry, LowQualityEntry, PlainEntry >> }

\* a state handed to decision_busqueda_libros
BookSearchInput(plan, books, stage, iterations, gaps) ==
  [initialize_state("T", "beginner") EXCEPT
     !.study_plan_structure = plan,
     !.books_by_stage = books,
     !.stage_being_processed = stage,
     !.book_search_iterations = iterations,
     !.knowledge_gaps = gaps]

\* a state handed to decision_cobertura_etapas and decision_validacion
ValidationInput(plan, books, validations, refinements, covered, feedback) ==
  [initialize_state("T", "beginner") EXCEPT
     !.study_plan_structure = plan,
     !.books_by_stage = books,
     !.validation_iterations = validations,
     !.plan_refinement_iterations = refinements,
     !.all_stages_covered = covered,
     !.validation_feedback = feedback]

\* candidate lists: none; none above 4.0; one above 4.0; seven above 4.0;
\* three out of score order
DirectCandidateLists ==
  { << >>,
    << BookInfo(BookE), BookInfo(BookF) >>,
    << BookInfo(BookA), BookInfo(BookE), BookInfo(BookF) >>,
    << BookInfo(BookG), BookInfo(BookB), BookInfo(BookA), BookInfo(BookH),
       BookInfo(BookC), BookInfo(BookD), BookInfo(BookI) >>,
    << BookInfo(BookC), BookInfo(BookA), BookInfo(BookH) >> }

\* quality thresholds, in tenths; threshold - 0.3 is a whole tenth in
\* double arithmetic for each of them
DirectThresholds == {35, 38, 40, 45}

\* a state handed to validador_calidad
QualityInput(plan, books, stage, candidates, threshold) ==
  [initialize_state("T", "beginner") EXCEPT
     !.study_plan_structure = plan,
     !.books_by_stage = books,
     !.stage_being_processed = stage,
     !.book_candidates =
        IF stage = NoStage THEN EmptyDict ELSE Put(EmptyDict, stage, candidates),
     !.quality_threshold = threshold]

InitDirect ==
  /\ node = "call"
  /\ steps = 0
  /\ \E plan \in DirectPlans :
       \E books \in DirectBooksByStage(plan) :
         \/ \E stage \in Range(plan) \cup {NoStage},
               candidates \in DirectCandidateLists,
               threshold \in DirectThresholds :
              /\ \A k \in DOMAIN books : Len(books[k]) <= 1
              /\ state = QualityInput(plan, books, stage, candidates,
                                      threshold)
         \/ \E stage \in Range(plan) \cup {NoStage},
               iterations \in 0..MaxCounter,
               gaps \in DirectGapLists :
              state = BookSearchInput(plan, books, stage, iterations, gaps)
         \/ \E validations \in 0..MaxCounter,
               refinements \in 0..(MAX_PLAN_REFINEMENTS + 1),
               covered \in BOOLEAN,
               feedback \in DirectFeedbackLogs :
              state = ValidationInput(plan, books, validations,
                                      refinements, covered, feedback)
  /\ decision = "none"
  /\ executed = "START"
  /\ collab = "none"
  /\ late = 0

Call_decision_busqueda_libros ==
  /\ node = "call"
  /\ decision' = decision_busqueda_libros(state)
  /\ executed' = "decision_busqueda_libros"
  /\ UNCHANGED << node, steps, state, collab, late >>

Call_decision_cobertura_etapas ==
  /\ node = "call"
  /\ decision' = decision_cobertura_etapas(state)
  /\ state' = decision_cobertura_state(state)
  /\ executed' = "decision_cobertura_etapas"
  /\ UNCHANGED << node, steps, collab, late >>

Call_decision_validacion ==
  /\ node = "call"
  /\ decision' = decision_validacion(state)
  /\ executed' = "decision_validacion"
  /\ UNCHANGED << node, steps, state, collab, late >>

\* a node called on one of the inputs: the state it returns
Returned(n, s) ==
  /\ node = "call"
  /\ executed = "START"
  /\ state' = s
  /\ executed' = n
  /\ node' = "returned"
  /\ UNCHANGED << steps, decision, collab, late >>

Call_selector_etapa == Returned("selector_etapa", selector_etapa(state))

Call_validador_calidad ==
  Returned("validador_calidad", validador_calidad(state))

Call_formateador_salida ==
  Returned("formateador_salida", formateador_salida(state))

Call_salida_forzada == Returned("salida_forzada", salida_forzada(state))

NextDirect ==
  \/ Call_decision_busqueda_libros
  \/ Call_decision_cobertura_etapas
  \/ Call_decision_validacion
  \/ Call_selector_etapa
  \/ Call_validador_calidad
  \/ Call_formateador_salida
  \/ Call_salida_forzada

SpecDirect == InitDirect /\ [][NextDirect]_vars

\* the sessions together with the direct calls
SpecAll == (Init \/ InitDirect) /\ [][Next \/ NextDirect]_vars

----------------------------------------------------------------------------
(* Book parsing: parse_books_from_text                                     *)

\* Python's None
None == "None"
\* a regular expression that finds no number
NoNumber == -1
\* int('') : the ValueError of a number made of commas only
ValueError == -2

\* A stripped line of text: the field marker it starts with ("" when it
\* starts with none) and the rest of the line.
Line(marker, rest) == [marker |-> marker, rest |-> rest]

Separator == Line("", "---")
Blank == Line("", "")

\* lines of loosely formatted answers
ItemSlash ==
  Line("", "1. Clean Code by Robert Martin (4.5/5, 1,200 reviews)")
ItemMarker == Line("", "1. Clean Code by Robert Martin - Rating: 4.8")
ItemPlain == Line("", "- Python Crash Course")
ItemUntitled == Line("", "1. : odd")
Prose == Line("", "A classic on craftsmanship")
Unbulleted == Line("", "Introduction to Algorithms (4.5/5, 1200 reviews)")
CommaReviews == Line("", "Notes, reviews pending")

\* the line as its pieces, which a blank joins
LineText(line) ==
  IF line.marker = "" THEN << line.rest >>
  ELSE IF line.rest = "" THEN << line.marker >>
  ELSE << line.marker, line.rest >>

\* line.replace(marker, '').strip() : every occurrence of the marker goes
StripMarker(line) ==
  IF line.marker = "Title:" /\ line.rest = "Job Title: Boss"
  THEN "Job  Boss"
  ELSE line.rest

\* re.search(r'\b(19|20)\d{2}\b', year_text)
YearIn(year_text) ==
  CASE year_text = "2008" -> "2008"
    [] year_text = "1999" -> "1999"
    [] OTHER -> None

\* str(rating) of a rating in tenths
RatingText(rating) ==
  CASE rating = 45 -> "4.5"
    [] rating = 48 -> "4.8"
    [] OTHER -> "0.0"

\* re.search(r'(\d+\.?\d*)', rating_text) and float(), in tenths
RatingIn(rating_text) ==
  CASE rating_text \in {"4.5", "4.5/5"} -> 45
    [] rating_text = "4.8" -> 48
    [] rating_text = "0.0" -> 0
    [] OTHER -> NoNumber

\* str(num_reviews)
ReviewsText(num_reviews) ==
  CASE num_reviews = 1200 -> "1200"
    [] num_reviews = 20 -> "20"
    [] OTHER -> "0"

\* re.search(r'(\d+)', reviews_text.replace(',', '')) and int()
ReviewsIn(reviews_text) ==
  CASE reviews_text \in {"1200", "1,200"} -> 1200
    [] reviews_text = "20" -> 20
    [] reviews_text = "0" -> 0
    [] OTHER -> NoNumber

RECURSIVE StructuredPass(_, _, _)
\* the first loop of parse_books_from_text, from `lines` on
StructuredPass(lines, books, current_book) ==
  LET flushed == IF "title" \in DOMAIN current_book
                 THEN Append(books, current_book) ELSE books
  IN IF lines = << >> THEN flushed
     ELSE
       LET line == Head(lines)
           value == StripMarker(line)
           started == current_book # EmptyDict
           number(n) == IF n = NoNumber THEN 0 ELSE n
       IN CASE line.marker = "Title:" ->
                 StructuredPass(Tail(lines), flushed,
                                Put(EmptyDict, "title", value))
            [] line.marker = "Author:" /\ started ->
                 StructuredPass(Tail(lines), books,
                                Put(current_book, "author", value))
            [] line.marker = "Year:" /\ started ->
                 StructuredPass(Tail(lines), books,
                                Put(current_book, "year", YearIn(value)))
            [] line.marker = "Rating:" /\ started ->
                 StructuredPass(Tail(lines), books,
                                Put(current_book, "rating",
                                    number(RatingIn(value))))
            [] line.marker = "Reviews:" /\ started ->
                 StructuredPass(Tail(lines), books,
                                Put(current_book, "num_reviews",
                                    number(ReviewsIn(value))))
            [] line.marker = "Why:" /\ started ->
                 StructuredPass(Tail(lines), books,
                                Put(current_book, "reason", << value >>))
            [] line = Separator /\ started ->
                 StructuredPass(Tail(lines), flushed, EmptyDict)
            [] OTHER -> StructuredPass(Tail(lines), books, current_book)

\* re.match(r'^[\d\*\-•]+[\.\):]?\s+', line)
StartsBook(line) ==
  line \in {ItemSlash, ItemMarker, ItemPlain, ItemUntitled}

\* the title pattern of the second pass
TitleMatch(line) ==
  CASE line \in {ItemSlash, ItemMarker} -> "Clean Code"
    [] line = ItemPlain -> "Python Crash Course"
    [] OTHER -> None

\* 'by' in line.lower() or 'author' in line.lower()
MentionsAuthor(line) == line \in {ItemSlash, ItemMarker} \/ line.marker = "Author:"

\* the author pattern of the second pass
AuthorMatch(line) ==
  CASE line = ItemSlash -> "Robert Martin"
    [] line = ItemMarker -> "Robert Martin - Rating: 4.8"
    [] line.marker = "Author:" -> line.rest
    [] OTHER -> None

\* re.search(r'(\d+\.?\d*)\s*(?:\/5|stars?|rating)', line), in tenths
RatingMatch(line) ==
  CASE line \in {ItemSlash, Unbulleted} -> 45
    [] line = Line("Rating:", "4.5/5") -> 45
    [] OTHER -> NoNumber

\* re.search(r'([\d,]+)\s*(?:reviews?|ratings?)', line) and int()
ReviewsMatch(line) ==
  CASE line \in {ItemSlash, Unbulleted} -> 1200
    [] line = CommaReviews -> ValueError
    [] OTHER -> NoNumber

\* no key word of ['title', 'author', 'rating', 'year', 'publication']
IsDescription(line) ==
  /\ line.marker \notin {"Title:", "Author:", "Rating:", "Year:"}
  /\ line # ItemMarker

RECURSIVE FallbackPass(_, _, _, _)
\* the second loop of parse_books_from_text, from `lines` on
FallbackPass(lines, books, current_book, book_started) ==
  LET flushed == IF current_book # EmptyDict /\ book_started
                 THEN Append(books, current_book) ELSE books
  IN IF lines = << >> THEN flushed
     ELSE
       LET line == Head(lines)
           begins == StartsBook(line)
           started == book_started \/ begins
           titled ==
             IF begins
             THEN IF TitleMatch(line) # None
                  THEN Put(EmptyDict, "title", TitleMatch(line))
                  ELSE EmptyDict
             ELSE current_book
           authored ==
             IF started /\ MentionsAuthor(line) /\ AuthorMatch(line) # None
             THEN Put(titled, "author", AuthorMatch(line)) ELSE titled
           rated ==
             IF started /\ RatingMatch(line) # NoNumber
             THEN Put(authored, "rating", RatingMatch(line)) ELSE authored
           reviewed ==
             IF started /\ ReviewsMatch(line) \notin {NoNumber, ValueError}
             THEN Put(rated, "num_reviews", ReviewsMatch(line)) ELSE rated
           reasoned ==
             IF started /\ IsDescription(line)
             THEN Put(reviewed, "reason",
                      Get(reviewed, "reason") \o LineText(line))
             ELSE reviewed
       IN IF line = Blank
          THEN IF current_book # EmptyDict /\ book_started
               THEN FallbackPass(Tail(lines), flushed, EmptyDict, FALSE)
               ELSE FallbackPass(Tail(lines), books, current_book,
                                 book_started)
          ELSE FallbackPass(Tail(lines), IF begins THEN flushed ELSE books,
                            reasoned, started)

\* dict.setdefault
SetDefault(d, k, v) == IF k \in DOMAIN d THEN d ELSE Put(d, k, v)

\* the defaults of the last loop, for the books that have a title
WithDefaults(book) ==
  IF "title" \notin DOMAIN book THEN book
  ELSE SetDefault(
         SetDefault(
           SetDefault(
             SetDefault(SetDefault(book, "author", "Unknown"),
                        "year", None),
             "rating", 0),
           "num_reviews", 0),
         "reason", << "Highly recommended resource" >>)

\* parse_books_from_text(text), for the text made of `lines`
parse_books_from_text(lines) ==
  LET structured == StructuredPass(lines, << >>, EmptyDict)
      books == IF Len(structured) = 0
               THEN FallbackPass(lines, << >>, EmptyDict, FALSE)
               ELSE structured
  IN [i \in 1..Len(books) |-> WithDefaults(books[i])]

\* a book whose fields are written out as a block
BlockBooks ==
  [title : {"Clean Code", "Job Title: Boss"},
   author : {"Robert Martin"},
   year : {"2008", "1859"},
   rating : {45, 48},
   num_reviews : {1200, 20},
   reason : { << "Classic" >> }]

\* the block of one book in the field-marker format, separator included
FormatBlock(book) ==
  << Line("Title:", book.title),
     Line("Author:", book.author),
     Line("Year:", book.year),
     Line("Rating:", RatingText(book.rating)),
     Line("Reviews:", ReviewsText(book.num_reviews)),
     Line("Why:", book.reason[1]),
     Separator >>

\* blocks with fields left out or not numeric, with and without separator
LooseBlocks ==
  { << Line("Title:", title) >> \o rating \o reviews \o separator :
      title \in {"Clean Code", ""},
      rating \in { << >> } \cup
                 { << Line("Rating:", r) >> : r \in {"4.5", "4.5/5", "N/A"} },
      reviews \in { << >> } \cup
                  { << Line("Reviews:", r) >> : r \in {"1,200", "many"} },
      separator \in { << >>, << Separator >> } }

LooseLines ==
  {ItemSlash, ItemMarker, ItemPlain, ItemUntitled, Prose, Unbulleted,
   CommaReviews, Blank, Line("Rating:", "4.5/5")}

\* answers without a Title: line, of up to MaxLines lines
LooseTexts == UNION { [1..n -> LooseLines] : n \in 1..MaxLines }

\* two books one after the other, without and with a separator between
TwoBlocks ==
  { SubSeq(FormatBlock(a), 1, 6) \o FormatBlock(b) :
      a \in {x \in BlockBooks : x.rating = 45 /\ x.num_reviews = 20},
      b \in {x \in BlockBooks : x.rating = 48 /\ x.num_reviews = 1200
                                 /\ x.year = "2008"} }

ParseInputs ==
  { FormatBlock(book) : book \in BlockBooks }
    \cup LooseBlocks \cup LooseTexts \cup TwoBlocks

InitParse ==
  /\ node = "call"
  /\ steps = 0
  /\ \E lines \in ParseInputs : state = [text |-> lines]
  /\ decision = "none"
  /\ executed = "START"
  /\ collab = "none"
  /\ late = 0

\* parse_books_from_text called on one of the texts
Call_parse_books_from_text ==
  /\ node = "call"
  /\ executed = "START"
  /\ state' = [text |-> state.text,
               books |-> parse_books_from_text(state.text)]
  /\ executed' = "parse_books_from_text"
  /\ node' = "returned"
  /\ UNCHANGED << steps, decision, collab, late >>

NextParse == Call_parse_books_from_text

SpecParse == InitParse /\ [][NextParse]_vars

----------------------------------------------------------------------------
(* Nodes called directly, each on one state and one collaborator answer    *)

\* finalized books of a stage: none; one; two good ones; one rated below
\* 3.8; half, two of three and all of them with fewer than 50 reviews
NodeBookLists ==
  { << >>,
    << BookInfo(BookA) >>,
    << BookInfo(BookA), BookInfo(BookB) >>,
    << BookInfo(BookA), BookInfo(BookE) >>,
    << BookInfo(BookA), BookInfo(BookC) >>,
    << BookInfo(BookC), BookInfo(BookD), BookInfo(BookA) >>,
    << BookInfo(BookC), BookInfo(BookD) >> }

NodeFeedbackLogs ==
  { << >>, << PlainEntry >>, << PlainEntry, CriticalEntry >> }

\* validation answers: a failure, and texts with no score or a score of
\* 5, 6 or 8 out of 10, with and without the critical phrases
NodeValidationReplies ==
  { [ok |-> FALSE, score |-> -1, words |-> {}] }
    \cup [ok : {TRUE}, score : {-1, 5, 6, 8},
          words : { {}, {"Critical"}, {"Major issue"}, {"Advanced"} }]

\* a state handed to detector_gaps and to validador_global
NodeInput(plan, stage, books, gaps, validations, feedback) ==
  [initialize_state("T", "beginner") EXCEPT
     !.study_plan_structure = plan,
     !.stage_being_processed = stage,
     !.books_by_stage =
        IF stage = NoStage THEN EmptyDict ELSE Put(EmptyDict, stage, books),
     !.knowledge_gaps = gaps,
     !.validation_iterations = validations,
     !.validation_feedback = feedback]

InitNodes ==
  /\ node = "call"
  /\ steps = 0
  /\ \E plan \in DirectPlans :
       \E stage \in Range(plan) \cup {NoStage},
          books \in NodeBookLists,
          gaps \in DirectGapLists,
          validations \in 0..MaxCounter,
          feedback \in NodeFeedbackLogs :
         state = NodeInput(plan, stage, books, gaps, validations, feedback)
  /\ decision = "none"
  /\ executed = "START"
  /\ collab = "none"
  /\ late = 0

Call_detector_gaps == Returned("detector_gaps", detector_gaps(state))

Call_validador_global ==
  \E reply \in NodeValidationReplies :
     Returned("validador_global", validador_global(state, reply))

NextNodes ==
  \/ Call_detector_gaps
  \/ Call_validador_global

SpecNodes == InitNodes /\ [][NextNodes]_vars

----------------------------------------------------------------------------
(* Properties                                                              *)

OutputNodes == {"formateador_salida", "salida_forzada"}

\* the session is over: an output node reached END, or the ceiling error
Ended == node \in {"END", "GraphRecursionError"}

\* some stage of the plan holds fewer books than the minimum
Shortfall ==
  \E i \in 1..Len(state.study_plan_structure) :
     Len(Get(state.books_by_stage, state.study_plan_structure[i]))
       < MIN_BOOKS_PER_STAGE

\* the final document opens with the forced-output disclaimer
HasDisclaimer ==
  /\ Len(state.final_output) > Len(Disclaimer)
  /\ SubSeq(state.final_output, 1, Len(Disclaimer)) = Disclaimer

\* C1: every session ends, either at END right after one of the two output
\* nodes or with the step-ceiling error, and no session executes more
\* than 100 nodes.  Stated by its variant: a session that has not ended
\* stands at a node of the graph or at the ceiling, so it takes a step;
\* every step executes one more node or raises the final ceiling error; at
\* most 100 nodes are executed; and nothing follows END or the error.
C1_SessionEnds ==
  /\ [](~Ended => (node \in GraphNodes \/ steps >= RECURSION_LIMIT))
  /\ [][\/ steps' = steps + 1 /\ steps' <= RECURSION_LIMIT
        \/ ~Ended /\ node' = "GraphRecursionError" /\ steps' = steps]_vars
  /\ [][~Ended]_vars
  /\ [](node = "END" => executed \in OutputNodes)
  /\ [](node = "GraphRecursionError" => steps = RECURSION_LIMIT)

\* a session stopped by the ceiling after exactly 100 node executions
C1_Witness ==
  node = "GraphRecursionError" /\ steps = RECURSION_LIMIT
    /\ executed \notin OutputNodes

\* C2: each retry cycle is left by its own counter or coverage test, so no
\* session needs the step ceiling to stop: the ceiling error is never
\* raised.
C2_NoCycleNeedsCeiling == node # "GraphRecursionError"

\* C3: a session that ends with a stage short of books ends at the Forced
\* Output node, with the disclaimer, and not with an error.
C3_ShortfallEndsAtForcedOutput ==
  (Ended /\ Shortfall) =>
    (node = "END" /\ executed = "salida_forzada" /\ HasDisclaimer)

\* C4: a session all of whose collaborator calls failed ends with a
\* non-empty final document that carries the forced-output disclaimer.
C4_FailingCollaboratorGetsDocument ==
  (Ended /\ collab = "failing") =>
    (node = "END" /\ state.final_output # << >> /\ HasDisclaimer)

\* C5: a beginner session whose collaborator answered every call well
\* formed (a plan of 3 stages, 5 titled books rated 4.0 or more on every
\* search) never reaches Forced Output or the ceiling error, and when it
\* ends it ended at Formatted Output with books for each of the 3 stages
\* and a final document without the disclaimer.
C5_WellFormedSession ==
  (collab = "well_formed" /\ state.user_level = "beginner") =>
    /\ node \notin {"salida_forzada", "GraphRecursionError"}
    /\ executed # "salida_forzada"
    /\ Ended =>
         /\ node = "END"
         /\ executed = "formateador_salida"
         /\ Len(state.study_plan_structure) = 3
         /\ \A i \in 1..3 :
              Len(Get(state.books_by_stage, state.study_plan_structure[i]))
                >= MIN_BOOKS_PER_STAGE
         /\ state.final_output # << >>
         /\ ~HasDisclaimer

\* a well-formed beginner session that ended after a second validation
C5_Witness ==
  /\ node = "END"
  /\ collab = "well_formed"
  /\ state.user_level = "beginner"
  /\ executed = "formateador_salida"
  /\ state.validation_iterations = 2

\* C6: the book-search counter never exceeds 3.
C6_SearchCeiling ==
  state.book_search_iterations <= MAX_BOOK_SEARCHES_PER_STAGE

\* C7: whenever the book-search decision is taken with a stage selected it
\* is the first match of: counter >= 3 accept-current; fewer than 2 books
\* retry-general; a gap that mentions the stage name or "need" and counter
\* < 2 retry-specific; otherwise sufficient.  With no stage selected the
\* decision is sufficient.
C7_BookSearchOrder ==
  executed = "detector_gaps" =>
    LET stage == state.stage_being_processed
        counter == state.book_search_iterations
        found == Len(Get(state.books_by_stage, stage))
        mentioned ==
          \E i \in 1..Len(state.knowledge_gaps) :
             \/ ContainsCI(state.knowledge_gaps[i], Lower(stage))
             \/ ContainsCI(state.knowledge_gaps[i], "need")
    IN decision =
         IF stage = NoStage THEN "libros_suficientes"
         ELSE IF counter >= 3 THEN "aceptar_libros_actuales"
         ELSE IF found < 2 THEN "reintentar_busqueda"
         ELSE IF mentioned /\ counter < 2 THEN "busqueda_especifica"
         ELSE "libros_suficientes"

\* the third search of a stage found nothing: the current books are accepted
C7_Witness ==
  /\ executed = "detector_gaps"
  /\ state.stage_being_processed # NoStage
  /\ state.book_search_iterations = 3
  /\ Get(state.books_by_stage, state.stage_being_processed) = << >>
  /\ decision = "aceptar_libros_actuales"

\* C7 as stated: the first-match order decides in every state, a state
\* without a selected stage included.
C7_OrderInEveryState ==
  executed = "detector_gaps" =>
    LET stage == state.stage_being_processed
        counter == state.book_search_iterations
        found == Len(Get(state.books_by_stage, stage))
        mentioned ==
          \E i \in 1..Len(state.knowledge_gaps) :
             \/ ContainsCI(state.knowledge_gaps[i], Lower(stage))
             \/ ContainsCI(state.knowledge_gaps[i], "need")
    IN decision =
         IF counter >= 3 THEN "aceptar_libros_actuales"
         ELSE IF found < 2 THEN "reintentar_busqueda"
         ELSE IF mentioned /\ counter < 2 THEN "busqueda_especifica"
         ELSE "libros_suficientes"

\* C8: the validation decision is the first match of: validation counter
\* >= 5 force-output; one of the last 3 feedback entries contains
\* "critical", "major issue" or "low quality" in any case and refinement
\* counter < 2 replan; some stage has fewer than 2 books and refinement
\* counter < 2 replan; otherwise format-output.
C8_ValidationOrder ==
  executed = "decision_validacion" =>
    LET log == state.validation_feedback
        recent == {i \in 1..Len(log) : i > Len(log) - 3}
        critical ==
          \E i \in recent :
             \E w \in {"critical", "major issue", "low quality"} :
                ContainsCI(log[i].words, w)
    IN decision =
         IF state.validation_iterations >= 5 THEN "forzar_salida"
         ELSE IF critical /\ state.plan_refinement_iterations < 2
              THEN "replantear"
         ELSE IF Shortfall /\ state.plan_refinement_iterations < 2
              THEN "replantear"
         ELSE "formatear"

\* output is forced at 5 validations although the feedback is critical and
\* a refinement is still allowed
C8_Witness ==
  /\ executed = "decision_validacion"
  /\ state.validation_iterations = 5
  /\ state.plan_refinement_iterations < 2
  /\ state.validation_feedback # << >>
  /\ IsCritical(state.validation_feedback[Len(state.validation_feedback)])
  /\ decision = "forzar_salida"

\* C9: the coverage decision is next-stage, and all-stages-covered false,
\* when some stage of the plan has fewer than 2 books, a stage without an
\* entry counting as 0; otherwise it is validate-globally, and the flag
\* true.
C9_CoverageDecision ==
  executed = "decision_cobertura_etapas" =>
    IF \E i \in 1..Len(state.study_plan_structure) :
          LET stage == state.study_plan_structure[i]
          IN IF stage \in DOMAIN state.books_by_stage
             THEN Len(state.books_by_stage[stage]) < 2
             ELSE TRUE
    THEN decision = "siguiente_etapa" /\ ~state.all_stages_covered
    ELSE decision = "validacion_global" /\ state.all_stages_covered

\* one stage has its 2 books, the other has no entry: next-stage
C9_Witness ==
  /\ executed = "decision_cobertura_etapas"
  /\ Len(state.study_plan_structure) = 2
  /\ Len(Get(state.books_by_stage, state.study_plan_structure[1])) = 2
  /\ state.study_plan_structure[2] \notin DOMAIN state.books_by_stage
  /\ decision = "siguiente_etapa"
  /\ ~state.all_stages_covered

\* C10: Stage Selection sets the book-search counter to 0 exactly when it
\* selects a stage different from the one selected before; when it selects
\* the same stage again, or none, the counter keeps its value.
C10_ResetOnChange ==
  [][(node = "selector_etapa" /\ executed' = "selector_etapa") =>
       LET selected == state'.stage_being_processed
       IN state'.book_search_iterations =
            IF selected # NoStage /\ selected # state.stage_being_processed
            THEN 0
            ELSE state.book_search_iterations]_vars

\* the stage searched 3 times is selected again and keeps its counter
C10_Witness ==
  /\ executed = "selector_etapa"
  /\ state.stage_being_processed # NoStage
  /\ state.book_search_iterations = MAX_BOOK_SEARCHES_PER_STAGE


\* C11: Stage Selection selects the first stage, in plan order, that has
\* fewer than 2 books in books-by-stage (a stage without an entry has
\* none); when every stage has at least 2 books it selects no stage and
\* sets all-stages-covered.
C11_FirstShortStage ==
  executed = "selector_etapa" =>
    LET plan == state.study_plan_structure
        short == {i \in 1..Len(plan) :
                    \/ plan[i] \notin DOMAIN state.books_by_stage
                    \/ Len(state.books_by_stage[plan[i]]) < 2}
    IN IF short = {}
       THEN state.stage_being_processed = NoStage /\ state.all_stages_covered
       ELSE \E i \in short :
              /\ state.stage_being_processed = plan[i]
              /\ \A j \in short : i <= j

\* the first stage holds 2 books, the second one holds 1 and is selected
C11_Witness ==
  /\ executed = "selector_etapa"
  /\ Len(state.study_plan_structure) = 2
  /\ Len(Get(state.books_by_stage, state.study_plan_structure[1])) = 2
  /\ Len(Get(state.books_by_stage, state.study_plan_structure[2])) = 1
  /\ state.stage_being_processed = state.study_plan_structure[2]


\* C12: every execution of Book Research with a stage selected adds exactly
\* 1 to the book-search counter, whatever the search returned; when the
\* search failed the candidates of the stage are the empty list; with no
\* stage selected Book Research leaves the state as it was.
C12_EverySearchCounts ==
  [][(node = "investigador_libros" /\ steps' = steps + 1) =>
       IF state.stage_being_processed = NoStage
       THEN state' = state
       ELSE /\ state'.book_search_iterations
                 = state.book_search_iterations + 1
            /\ collab' = "failing" =>
                 state'.book_candidates[state.stage_being_processed] = << >>
            /\ \A f \in (DOMAIN state) \ {"book_search_iterations",
                                          "book_candidates"} :
                 state'[f] = state[f]]_vars

\* the second search of a stage failed like the first one
C12_Witness ==
  /\ executed = "investigador_libros"
  /\ collab = "failing"
  /\ state.stage_being_processed # NoStage
  /\ state.book_search_iterations = 2
  /\ state.book_candidates[state.stage_being_processed] = << >>


\* C13: when the text-completion call of a node fails, the node still
\* returns, with its fallback value, and the executor goes on along the
\* node's outgoing edge: Topic Analysis leaves three generic gaps, Plan
\* Structuring the default plan (3 stages for a beginner, 2 otherwise),
\* Book Research no candidates and one more search counted, Global
\* Validation one more validation counted and a warning in the log,
\* Replanning one more refinement counted and nothing else.
C13_FailureStaysInNode ==
  [][(steps' = steps + 1) =>
       /\ (/\ node = "analizador_tema"
           /\ state' = analizador_tema(state, [ok |-> FALSE, lines |-> << >>]))
            => /\ Len(state'.knowledge_gaps) = 3
               /\ executed' = node /\ node' = "evaluador_nivel"
       /\ (/\ node = "estructurador_plan"
           /\ state' = estructurador_plan(state, [ok |-> FALSE, headers |-> 0]))
            => /\ Len(state'.study_plan_structure)
                    = IF state.user_level = "beginner" THEN 3 ELSE 2
               /\ executed' = node /\ node' = "selector_etapa"
       /\ (/\ node = "investigador_libros"
           /\ state.stage_being_processed # NoStage
           /\ state' = investigador_libros(state,
                                           [ok |-> FALSE, books |-> << >>]))
            => /\ state'.book_candidates[state.stage_being_processed] = << >>
               /\ state'.book_search_iterations
                    = state.book_search_iterations + 1
               /\ executed' = node /\ node' = "validador_calidad"
       /\ (/\ node = "validador_global"
           /\ state' = validador_global(state, [ok |-> FALSE, score |-> -1,
                                                words |-> {}]))
            => /\ state'.validation_iterations
                    = state.validation_iterations + 1
               /\ Len(state'.validation_feedback)
                    = Len(state.validation_feedback) + 1
               /\ executed' = node
               /\ node' \in {"salida_forzada", "replanificador",
                             "formateador_salida"}
       /\ (/\ node = "replanificador"
           /\ state' = replanificador(state, [ok |-> FALSE, words |-> {}]))
            => /\ state'.plan_refinement_iterations
                    = state.plan_refinement_iterations + 1
               /\ state'.books_by_stage = state.books_by_stage
               /\ state'.validation_feedback = state.validation_feedback
               /\ executed' = node /\ node' = "selector_etapa"]_vars

\* a validation whose call failed was counted, logged with a warning, and
\* followed by the next node
C13_Witness ==
  /\ executed = "validador_global"
  /\ state.validation_iterations = 1
  /\ state.validation_feedback # << >>
  /\ "Completed with warnings"
       \in state.validation_feedback[Len(state.validation_feedback)].words
  /\ node \in {"replanificador", "formateador_salida"}


\* C14: after Quality Validation has run with a stage selected, the books
\* of that stage are at most 5, in descending order of score, all of them
\* among the stage's candidates, and all rated at least the quality
\* threshold, or at least the threshold less 0.3 when fewer than 2
\* candidates reached a threshold above 3.5.
C14_SelectedBooks ==
  (executed = "validador_calidad" /\ state.stage_being_processed # NoStage) =>
    LET stage == state.stage_being_processed
        books == state.books_by_stage[stage]
        candidates == Get(state.book_candidates, stage)
        threshold == state.quality_threshold
        passing == {i \in 1..Len(candidates) :
                      candidates[i].rating >= threshold}
        floor == IF Cardinality(passing) < 2 /\ threshold > 35
                 THEN threshold - 3 ELSE threshold
    IN /\ Len(books) <= 5
       /\ \A i \in 1..Len(books) :
            /\ \E j \in 1..Len(candidates) : books[i] = candidates[j]
            /\ books[i].rating >= floor
            /\ i < Len(books) => books[i].score >= books[i + 1].score

\* seven candidates pass the threshold and the best 5 are kept
C14_Witness ==
  /\ executed = "validador_calidad"
  /\ state.stage_being_processed # NoStage
  /\ Len(Get(state.book_candidates, state.stage_being_processed)) = 7
  /\ Len(state.books_by_stage[state.stage_being_processed]) = 5


\* C15: for every list of candidates and every threshold, when fewer than
\* 2 candidates reach the threshold and the threshold is above 3.5 the
\* filter is applied again, once, at the threshold less 0.3, and what it
\* keeps includes what the first filter kept; when 2 or more reach the
\* threshold, or the threshold is 3.5 or less, the first filter stands.
C15_OneRelaxation ==
  (executed = "validador_calidad" /\ state.stage_being_processed # NoStage) =>
    LET stage == state.stage_being_processed
        books == Range(state.books_by_stage[stage])
        candidates == Range(Get(state.book_candidates, stage))
        threshold == state.quality_threshold
        first == {b \in candidates : b.rating >= threshold}
        second == {b \in candidates : b.rating >= threshold - 3}
        filtered == IF Cardinality(first) < 2 /\ threshold > 35
                    THEN second ELSE first
    IN /\ first \subseteq filtered
       /\ books \subseteq filtered
       /\ Cardinality(filtered) <= 5 => books = filtered

\* one candidate reaches 4.0, a second one only 3.7: both are kept
C15_Witness ==
  /\ executed = "validador_calidad"
  /\ state.stage_being_processed # NoStage
  /\ state.quality_threshold = 40
  /\ LET books == state.books_by_stage[state.stage_being_processed]
     IN /\ Len(books) = 2
        /\ books[1].rating >= 40
        /\ books[2].rating = 37


\* C16: in every reachable state every key of books-by-stage is a stage of
\* the plan.
C16_BooksOnlyForPlanStages ==
  \A key \in DOMAIN state.books_by_stage :
     \E i \in 1..Len(state.study_plan_structure) :
        state.study_plan_structure[i] = key

\* books are held for two stages of the plan
C16_Witness ==
  /\ Cardinality(DOMAIN state.books_by_stage) = 2
  /\ Len(state.study_plan_structure) = 3


\* C17: no node execution decreases the validation counter or the
\* plan-refinement counter, and none decreases the book-search counter
\* except Stage Selection, which may set it to 0.
C17_CountersNeverDecrease ==
  [][(steps' = steps + 1) =>
       /\ state'.validation_iterations >= state.validation_iterations
       /\ state'.plan_refinement_iterations
            >= state.plan_refinement_iterations
       /\ \/ state'.book_search_iterations >= state.book_search_iterations
          \/ /\ node = "selector_etapa"
             /\ state'.book_search_iterations = 0]_vars

\* Stage Selection has cleared the counter for the second stage, whose
\* predecessor was searched twice
C17_Witness ==
  /\ executed = "selector_etapa"
  /\ state.book_search_iterations = 0
  /\ state.stage_being_processed # NoStage
  /\ DOMAIN state.books_by_stage # {}
  /\ state.plan_refinement_iterations = 1


\* C18: after every node execution the feedback log it found is a prefix
\* of the feedback log it leaves; the same holds for the list of knowledge
\* gaps, except in Level Evaluation, which only removes entries.
C18_LogsAppendOnly ==
  [][(steps' = steps + 1) =>
       LET old_log == state.validation_feedback
           new_log == state'.validation_feedback
           old_gaps == state.knowledge_gaps
           new_gaps == state'.knowledge_gaps
       IN /\ Len(old_log) <= Len(new_log)
          /\ SubSeq(new_log, 1, Len(old_log)) = old_log
          /\ IF node = "evaluador_nivel"
             THEN /\ Len(new_gaps) <= Len(old_gaps)
                  /\ \A i \in 1..Len(new_gaps) :
                       \E j \in 1..Len(old_gaps) : new_gaps[i] = old_gaps[j]
             ELSE /\ Len(old_gaps) <= Len(new_gaps)
                  /\ SubSeq(new_gaps, 1, Len(old_gaps)) = old_gaps]_vars

\* a validation has been added to the log of the analysis, and gaps found
\* by the detector to those of the analysis
C18_Witness ==
  /\ executed = "validador_global"
  /\ Len(state.validation_feedback) >= 2
  /\ state.validation_feedback[1].label = "Analisis inicial"
  /\ Len(state.knowledge_gaps) >= 2
  /\ "Complete coverage of T" \in state.knowledge_gaps[1]


\* C19: the final document is empty as long as no output node has run; it
\* is written once, by an output node, on a state in which it was empty;
\* from then on it is not empty, and it opens with the forced-output
\* disclaimer exactly when the output node was Forced Output.
C19_DocumentSetOnce ==
  /\ [](executed \notin OutputNodes => state.final_output = << >>)
  /\ [](executed \in OutputNodes =>
          /\ state.final_output # << >>
          /\ HasDisclaimer <=> executed = "salida_forzada")
  /\ [][state'.final_output # state.final_output =>
          /\ state.final_output = << >>
          /\ executed \notin OutputNodes
          /\ executed' \in OutputNodes]_vars

\* Forced Output has written the document, disclaimer first
C19_Witness ==
  /\ executed = "salida_forzada"
  /\ HasDisclaimer
  /\ Len(state.final_output) = Len(Disclaimer) + Len(PlanDocument)


\* C20: a session started with an empty topic executes no node.
C20_EmptyTopicRunsNothing ==
  state.topic = "" => (steps = 0 /\ executed = "START")


\* C21: parsing the block of one book in the exact field-marker format,
\* separator included, yields exactly one record, whose title, author,
\* year, rating, review count and reason are the values of the block.
C21_BlockRoundTrip ==
  \A book \in BlockBooks :
     (executed = "parse_books_from_text" /\ state.text = FormatBlock(book))
       => state.books = << book >>

\* the rating a line states, as "X/5" or after "Rating:", in tenths
StatedRating(line) ==
  CASE line \in {ItemSlash, Unbulleted} -> 45
    [] line = ItemMarker -> 48
    [] line.marker = "Rating:" -> RatingIn(line.rest)
    [] OTHER -> NoNumber

\* the review count a line states
StatedReviews(line) ==
  CASE line \in {ItemSlash, Unbulleted} -> 1200
    [] line.marker = "Reviews:" -> ReviewsIn(line.rest)
    [] OTHER -> NoNumber

\* the one number among `stated`, 0 when there is none
TheNumber(stated) ==
  LET numbers == stated \ {NoNumber}
  IN IF numbers = {} THEN 0 ELSE CHOOSE n \in numbers : TRUE

\* the rating and the review count a text states
TextRating(text) ==
  TheNumber({ StatedRating(text[i]) : i \in 1..Len(text) })
TextReviews(text) ==
  TheNumber({ StatedReviews(text[i]) : i \in 1..Len(text) })

\* texts about one book: a block, or an item line and what follows it,
\* that state at most one rating
OneBookTexts ==
  { text \in LooseBlocks \cup LooseTexts :
      /\ text[1].marker = "Title:" \/ StartsBook(text[1])
      /\ \A i \in 2..Len(text) : ~StartsBook(text[i]) /\ text[i] # Blank
      /\ Cardinality({ StatedRating(text[i]) : i \in 1..Len(text) }
                       \ {NoNumber}) <= 1 }

\* C22: book parsing never raises on a numeric field: the book of a text
\* that states a rating, as "X/5" or after "Rating:", gets that rating; the
\* book of a text with no rating, or with text that is not a number after
\* the marker, gets the default rating 0.0; and the review count likewise
\* defaults to 0.
C22_RatingsParsed ==
  (executed = "parse_books_from_text" /\ state.text \in OneBookTexts)
    => \A i \in 1..Len(state.books) :
          /\ {"rating", "num_reviews"} \subseteq DOMAIN state.books[i]
          /\ state.books[i].rating = TextRating(state.text)
          /\ state.books[i].num_reviews = TextReviews(state.text)


\* the book records stored in book_candidates and in books_by_stage
StoredBooks ==
  UNION { Range(state.book_candidates[k]) : k \in DOMAIN state.book_candidates }
    \cup
  UNION { Range(state.books_by_stage[k]) : k \in DOMAIN state.books_by_stage }

C30_NoUntitledBookStored ==
  \A book \in StoredBooks : "title" \in DOMAIN book /\ book.title # ""

\* a search that returned a record with an empty title and a record
\* without a title key, next to titled books, has stored its candidates
C30_Witness ==
  /\ executed = "investigador_libros"
  /\ \E k \in DOMAIN state.book_candidates :
        state.book_candidates[k] = BookInfos(<< BookA, BookU, BookN, BookZ, BookF >>)
  /\ BookInfo(BookA) \in StoredBooks


\* C24: every execution of replanificador, whatever the outcome of its
\* collaborator call, increases plan_refinement_iterations by exactly 1,
\* sets all_stages_covered to false, removes from books_by_stage the entry
\* of every stage that has fewer than 2 books, and leaves
\* study_plan_structure unchanged.
C24_ReplanningEffects ==
  [][(node = "replanificador" /\ steps' = steps + 1)
       => /\ state'.plan_refinement_iterations
               = state.plan_refinement_iterations + 1
          /\ state'.all_stages_covered = FALSE
          /\ \A k \in DOMAIN state'.books_by_stage :
                Len(state'.books_by_stage[k]) >= MIN_BOOKS_PER_STAGE
          /\ state'.study_plan_structure = state.study_plan_structure]_vars


\* the entries a call of a node has appended to validation_feedback
AppendedFeedback ==
  SubSeq(state'.validation_feedback, Len(state.validation_feedback) + 1,
         Len(state'.validation_feedback))

\* C25: every execution of validador_global increases validation_iterations
\* by exactly 1 and appends at least one feedback entry; it appends
\* critical-issue marker entries as well exactly when the extracted score
\* (7 when the text has none) is below 6 or the text contains "critical" or
\* "major issue"; and it changes no other field of the state.
C25_ValidationEffects ==
  [][\A reply \in NodeValidationReplies :
        (executed' = "validador_global"
           /\ state' = validador_global(state, reply))
          => LET score == IF reply.score >= 0 THEN reply.score ELSE 7
                 markers == Tail(AppendedFeedback)
             IN /\ state'.validation_iterations
                     = state.validation_iterations + 1
                /\ Len(state'.validation_feedback)
                     >= Len(state.validation_feedback) + 1
                /\ SubSeq(state'.validation_feedback, 1,
                          Len(state.validation_feedback))
                     = state.validation_feedback
                /\ markers # << >>
                     <=> /\ reply.ok
                         /\ \/ score < 6
                            \/ ContainsCI(reply.words, "critical")
                            \/ ContainsCI(reply.words, "major issue")
                /\ \A i \in 1..Len(markers) :
                      markers[i].label \in {"Critical issues detected",
                                            "Low quality score"}
                /\ [state' EXCEPT
                      !.validation_iterations = state.validation_iterations,
                      !.validation_feedback = state.validation_feedback]
                     = state]_vars

\* a validation whose text gave a score of 6 or more and a critical phrase
\* has appended its entry and one marker
C25_Witness ==
  /\ executed = "validador_global"
  /\ Len(state.validation_feedback) >= 2
  /\ LET n == Len(state.validation_feedback)
     IN /\ state.validation_feedback[n].label = "Critical issues detected"
        /\ state.validation_feedback[n - 1].label = "Validation"
        /\ state.validation_feedback[n - 1].q >= MIN_SCORE
        /\ state.validation_feedback[n - 1].n = state.validation_iterations


\* C26: detector_gaps appends gap strings for the selected stage exactly
\* when that stage has fewer than 2 finalized books, or some book rated
\* below 3.8, or more than half of its books with fewer than 50 reviews;
\* when none of these holds, or no stage is selected, it leaves
\* knowledge_gaps and every other field unchanged.
C26_GapDetection ==
  [][executed' = "detector_gaps"
       => LET stage == state.stage_being_processed
              books == Get(state.books_by_stage, stage)
              few == { i \in 1..Len(books) : books[i].num_reviews < 50 }
              found ==
                /\ stage # NoStage
                /\ \/ Len(books) < 2
                   \/ \E i \in 1..Len(books) : books[i].rating < 38
                   \/ 2 * Cardinality(few) > Len(books)
              old == state.knowledge_gaps
              new == state'.knowledge_gaps
          IN /\ found => /\ Len(new) > Len(old)
                         /\ SubSeq(new, 1, Len(old)) = old
                         /\ \A i \in (Len(old) + 1)..Len(new) :
                               stage \in new[i]
             /\ ~found => new = old
             /\ [state' EXCEPT !.knowledge_gaps = old] = state]_vars

\* a stage two of whose three books have few reviews, all rated 3.8 or
\* more, got one gap string
C26_Witness ==
  /\ executed = "detector_gaps"
  /\ state.stage_being_processed # NoStage
  /\ Get(state.books_by_stage, state.stage_being_processed)
       = << BookInfo(BookC), BookInfo(BookD), BookInfo(BookA) >>
  /\ state.knowledge_gaps # << >>
  /\ state.knowledge_gaps[Len(state.knowledge_gaps)]
       = GapFewReviews(state.stage_being_processed)


\* C27: after estructurador_plan the plan structure is never empty and
\* plan_refinement_iterations has been incremented; when the collaborator
\* fails or no stage header can be parsed, the plan is the fixed default
\* plan, of 3 stages for level beginner and of 2 stages for any other level.
C27_PlanNeverEmpty ==
  [][(node = "estructurador_plan" /\ steps' = steps + 1)
       => /\ state'.study_plan_structure # << >>
          /\ state'.plan_refinement_iterations
               = state.plan_refinement_iterations + 1
          /\ \A reply \in PlanReplies :
                (/\ state' = estructurador_plan(state, reply)
                 /\ ~reply.ok \/ reply.headers = 0)
                  => state'.study_plan_structure
                       = IF state.user_level = "beginner"
                         THEN << "Fundamentals of T", "Intermediate T",
                                 "Advanced T" >>
                         ELSE << "Core T", "Advanced T" >>]_vars

\* the plan of a beginner after a structuring that fell back on the
\* default stages
C27_Witness ==
  /\ executed = "estructurador_plan"
  /\ state.user_level = "beginner"
  /\ Len(state.study_plan_structure) = 3
  /\ state.study_plan_structure[1] = "Fundamentals of T"
  /\ state.plan_refinement_iterations = 1


\* C28: after detector_gaps the next node executed is investigador_libros
\* when decision_busqueda_libros returns reintentar_busqueda or
\* busqueda_especifica, and decision_cobertura when it returns
\* aceptar_libros_actuales or libros_suficientes; no other node can follow.
C28_AfterGapDetection ==
  [][(executed = "detector_gaps" /\ steps' = steps + 1)
       => LET d == decision_busqueda_libros(state)
          IN /\ d \in {"reintentar_busqueda", "busqueda_especifica"}
                  => executed' = "investigador_libros"
             /\ d \in {"aceptar_libros_actuales", "libros_suficientes"}
                  => executed' = "decision_cobertura"
             /\ executed' \in {"investigador_libros",
                               "decision_cobertura"}]_vars

\* the research node has run again on a specific retry
C28_Witness ==
  /\ executed = "investigador_libros"
  /\ decision = "busqueda_especifica"


\* C29: the quality threshold stored in the state is changed by no node
\* other than validador_calidad with its relaxation: every other node
\* leaves it at the value it had when the session started.
C29_ThresholdKept ==
  [][executed' # "validador_calidad"
       => /\ state'.quality_threshold = state.quality_threshold
          /\ state'.quality_threshold
               = initialize_state(state.topic, "beginner").quality_threshold]_vars

\* gap detection has run for a stage that kept a single book after the
\* relaxed validation, and the stored threshold is the initial one
C29_Witness ==
  /\ executed = "detector_gaps"
  /\ state.stage_being_processed # NoStage
  /\ Len(Get(state.books_by_stage, state.stage_being_processed)) = 1
  /\ state.quality_threshold = QUALITY_THRESHOLD


SelectedStageShort ==
  /\ state.stage_being_processed # NoStage
  /\ Len(Get(state.books_by_stage, state.stage_being_processed))
       < MIN_BOOKS_PER_STAGE

ValidationNodes ==
  {"validador_global", "replanificador", "formateador_salida",
   "salida_forzada"}

C34_ReplanningOnce ==
  /\ [](executed = "estructurador_plan"
          => state.plan_refinement_iterations = 1)
  /\ [](decision = "replantear"
          => (executed = "validador_global"
                => state.plan_refinement_iterations < 2))
  /\ [][(executed' = "replanificador" /\ steps' = steps + 1)
          => /\ decision = "replantear"
             /\ state.plan_refinement_iterations = 1
             /\ state'.plan_refinement_iterations = 2]_vars
  /\ [][state'.plan_refinement_iterations
          >= state.plan_refinement_iterations]_vars

\* the second validation after a replanning found critical issues and the
\* session went on to the document
C34_Witness ==
  /\ executed = "validador_global"
  /\ state.validation_iterations = 2
  /\ state.plan_refinement_iterations = 2
  /\ IsCritical(state.validation_feedback[Len(state.validation_feedback)])
  /\ node = "formateador_salida"


\* C35: the replanning cycle performs no new search: between an execution
\* of replanificador and the next execution of validador_global,
\* selector_etapa selects no stage, investigador_libros, validador_calidad
\* and detector_gaps change nothing, and books_by_stage is the same at the
\* second validador_global as at the first.
C35_ReplanningSearchesNothing ==
  /\ [][(/\ state.plan_refinement_iterations = 2
         /\ state.validation_iterations = 1
         /\ executed # "validador_global"
         /\ steps' = steps + 1)
          => /\ executed' = "selector_etapa"
                  => state'.stage_being_processed = NoStage
             /\ executed' \in {"investigador_libros", "validador_calidad",
                               "detector_gaps"}
                  => state' = state]_vars
  /\ [][state.validation_iterations >= 1
          => state'.books_by_stage = state.books_by_stage]_vars

\* gap detection has run, on no stage, between the replanning and the
\* second validation
C35_Witness ==
  /\ executed = "detector_gaps"
  /\ state.plan_refinement_iterations = 2
  /\ state.validation_iterations = 1
  /\ state.stage_being_processed = NoStage


\* C36: validador_calidad replaces the book list of the selected stage
\* instead of merging into it: after it runs, books_by_stage for the stage
\* is computed only from the candidates of the latest search, which are the
\* books of that search alone; so a specific retry that returns fewer
\* acceptable books can take a stage that had 2 or more books back below 2.
C36_SelectionReplaced ==
  /\ [][(executed' = "investigador_libros" /\ steps' = steps + 1
           /\ state.stage_being_processed # NoStage)
          => \E reply \in SearchReplies(collab) :
                state'.book_candidates[state.stage_being_processed]
                  = BookInfos(reply.books)]_vars
  /\ [][(executed' = "validador_calidad" /\ steps' = steps + 1
           /\ state.stage_being_processed # NoStage)
          => LET stage == state.stage_being_processed
             IN /\ state'.book_candidates = state.book_candidates
                /\ Range(state'.books_by_stage[stage])
                     \subseteq Range(state.book_candidates[stage])
                /\ \A book \in Range(state.book_candidates[stage]) :
                      book.rating >= state.quality_threshold
                        => \/ book \in Range(state'.books_by_stage[stage])
                           \/ Len(state'.books_by_stage[stage]) = 5]_vars
  /\ [][(/\ executed = "detector_gaps"
         /\ decision = "busqueda_especifica"
         /\ steps' = steps + 1)
          => Len(Get(state.books_by_stage, state.stage_being_processed))
               >= 2]_vars

\* the validation after a specific retry left the stage with fewer than 2
\* books
C36_Witness ==
  /\ executed = "validador_calidad"
  /\ decision = "busqueda_especifica"
  /\ state.stage_being_processed # NoStage
  /\ Len(state.books_by_stage[state.stage_being_processed]) < 2


\* C37: whenever decision_busqueda_libros is evaluated with a stage
\* selected, the book-search counter is at least 1; so busqueda_especifica
\* is returned only when the counter equals 1, that is at most once between
\* two resets of the counter, which otherwise only grows.
C37_SpecificRetryOnce ==
  /\ []((executed = "detector_gaps"
           /\ state.stage_being_processed # NoStage)
          => /\ state.book_search_iterations >= 1
             /\ decision = decision_busqueda_libros(state)
             /\ decision = "busqueda_especifica"
                  => state.book_search_iterations = 1)
  /\ [][\/ state'.book_search_iterations = state.book_search_iterations
        \/ state'.book_search_iterations = state.book_search_iterations + 1
        \/ /\ state'.book_search_iterations = 0
           /\ executed' = "selector_etapa"]_vars

\* a specific retry was decided after the first search of a stage
C37_Witness ==
  /\ executed = "detector_gaps"
  /\ decision = "busqueda_especifica"
  /\ state.stage_being_processed # NoStage
  /\ state.book_search_iterations = 1


\* C38: whenever validador_global appends a critical-issue marker (critical
\* text or a score below 6), the marker lies within the last 3 feedback
\* entries, which the decision_validacion that follows reads; it therefore
\* returns replantear if the validation counter is below 5 and the
\* plan-refinement counter is below 2.
C38_MarkerLeadsToReplanning ==
  [][(/\ executed' = "validador_global"
      /\ steps' = steps + 1
      /\ Len(state'.validation_feedback)
           > Len(state.validation_feedback) + 1)
       => /\ \A i \in (Len(state.validation_feedback) + 2)
                        ..Len(state'.validation_feedback) :
                /\ i > Len(state'.validation_feedback) - 3
                /\ state'.validation_feedback[i].label
                     \in {"Critical issues detected", "Low quality score"}
          /\ (/\ state'.validation_iterations < 5
              /\ state'.plan_refinement_iterations < 2)
               => /\ decision' = "replantear"
                  /\ node' = "replanificador"]_vars

\* the first validation appended a marker and replanning was decided
C38_Witness ==
  /\ executed = "validador_global"
  /\ state.validation_iterations = 1
  /\ state.validation_feedback[Len(state.validation_feedback)].label
       = "Low quality score"
  /\ decision = "replantear"


\* C39: stages are covered in plan order: in every reachable state in which
\* a stage is selected, every stage that precedes it in the plan has at
\* least 2 books in books_by_stage.
C39_CoveredInPlanOrder ==
  \A i \in 1..Len(state.study_plan_structure) :
     state.study_plan_structure[i] = state.stage_being_processed
       => \A j \in 1..(i - 1) :
             Len(Get(state.books_by_stage, state.study_plan_structure[j]))
               >= 2

\* the third stage of a plan is selected
C39_Witness ==
  /\ Len(state.study_plan_structure) = 3
  /\ state.stage_being_processed = state.study_plan_structure[3]
  /\ executed = "selector_etapa"


\* C40: estructurador_plan executes exactly once per session, as its third
\* node, and the plan structure, that is its stage names and their order,
\* is changed by no node afterwards, replanificador included.
C40_PlanFixedAfterStructuring ==
  /\ [][(executed' = "estructurador_plan" /\ steps' = steps + 1)
          => steps = 2]_vars
  /\ [](steps = 3 => executed = "estructurador_plan")
  /\ [](Ended => steps >= 3)
  /\ [][steps >= 3
          => state'.study_plan_structure = state.study_plan_structure]_vars

\* a replanning that recorded its recommendation has run on a plan of 3
\* stages parsed from the collaborator's text
C40_Witness ==
  /\ executed = "replanificador"
  /\ state.study_plan_structure = SubSeq(LLMStageNames, 1, 3)
  /\ state.validation_feedback[Len(state.validation_feedback)].label
       \notin {"Validation", "Critical issues detected", "Low quality score"}

====
